---- MODULE Spec2Model ----
(***************************************************************************)
(* Turn-processing pipeline of the voice chatbot: CommandHandler           *)
(* (src/src/command_handler.py), Translator (src/src/translation.py) and   *)
(* Chatbot.process_input / Chatbot.start (src/src/chatbot.py).             *)
(*                                                                         *)
(* Text is a sequence of one-character strings, so that str.lower() and    *)
(* the substring test `in` are computed rather than assumed.  The external *)
(* services (langdetect, googletrans, the DialoGPT model, the clock) are   *)
(* nondeterministic: every call either fails or yields a value drawn from  *)
(* a small set.                                                            *)
(***************************************************************************)
EXTENDS Integers, Sequences, FiniteSets, TLC

VARIABLES
    max_history,          \* config["model"]["max_history"]
    translation_enabled,  \* config["language"]["translation_enabled"]
    default_language,     \* Translator.default_language
    custom_commands,      \* CommandHandler.custom_commands (ordered dict)
    builtin_handlers,     \* CommandHandler.builtin_handlers (label -> handler)
    conversation_history, \* Chatbot.conversation_history
    chat_history_ids,     \* Chatbot.chat_history_ids
    use_voice_input,      \* Chatbot.use_voice_input
    tts,                  \* Chatbot.tts: the TextToSpeech object
    pc,                   \* position of Chatbot.start
    appended,             \* every text process_input appended, in order
    last                  \* the call in progress: its arguments, its result
                          \* and the external calls it made ("none": idle)

vars == << max_history, translation_enabled, default_language,
           custom_commands, builtin_handlers, conversation_history,
           chat_history_ids, use_voice_input, tts, pc, appended, last >>

config == << max_history, translation_enabled, default_language,
             use_voice_input, tts >>

handler_state == << custom_commands, builtin_handlers >>

chat_state == << conversation_history, chat_history_ids, appended >>


-----------------------------------------------------------------------------
(* Bounds *)

\* largest configured max_history explored
MaxK == 1

\* number of texts process_input may append in one behaviour
MaxTurns == 2

\* number of microphone calls (wake-word checks and captures) one call of
\* listen may make
MaxListen == 4

-----------------------------------------------------------------------------
(* Values *)

\* Python None, for a text, a language code and a token tensor
None == << "None" >>

NoLang == "none"

NoIds == [isNone |-> TRUE, ids |-> << >>]

Ids(s) == [isNone |-> FALSE, ids |-> s]

Langs == { "en", "fr" }

\* utterances the caller may pass
Utterances ==
    { << >>, << "x" >>, << "A", "b" >>, << "b", "A" >>, << "j", "A" >> }

\* texts googletrans may return
TranslatedTexts == { << "y" >> }

\* texts the model may decode as its reply
Replies == { << "r" >>, << >> }

Goodbye == << "G", "o", "o", "d", "b", "y", "e", "!" >>

-----------------------------------------------------------------------------
(* str.lower() and the substring test *)

LowerChar(c) ==
    CASE c = "A" -> "a"
      [] c = "B" -> "b"
      [] c = "J" -> "j"
      [] OTHER   -> c

Lower(s) == [i \in 1..Len(s) |-> LowerChar(s[i])]

\* Python `pat in s` on strings
Contains(pat, s) ==
    \E i \in 0..(Len(s) - Len(pat)) : SubSeq(s, i + 1, i + Len(pat)) = pat

\* Python truthiness of a str-or-None value
Truthy(v) == v # None /\ v # << >>

-----------------------------------------------------------------------------
(* CommandHandler *)

\* config["commands"]["exit_commands"]
exit_commands == { << "a", "b" >>, << "q" >> }

\* config["commands"]["custom_commands"], in declaration order: "joke" has
\* no built-in handler, "time" and "date" have one
ConfiguredCommands ==
    << [type |-> "joke", patterns |-> << << "j" >> >>],
       [type |-> "time", patterns |-> << << "q", "q" >>, << "A" >> >>],
       [type |-> "date", patterns |-> << << "b" >> >>] >>

Types(tbl) == { tbl[i].type : i \in 1..Len(tbl) }

\* handlers a caller may register at run time: one returns "", the other
\* returns its argument
CustomHandlers == { "h_empty", "h_echo" }

InitialHandlers ==
    [t \in { "time", "date", "weather", "help" } |->
        CASE t = "time"    -> "_handle_time_command"
          [] t = "date"    -> "_handle_date_command"
          [] t = "weather" -> "_handle_weather_command"
          [] t = "help"    -> "_handle_help_command"]

\* what handler h returns for `command`.  The built-in handlers format
\* the clock or a random draw into a fixed sentence, which is never empty:
\* one token stands for that sentence.
HandlerOutput(h, command) ==
    CASE h = "_handle_time_command"    -> << "The current time is" >>
      [] h = "_handle_date_command"    -> << "Today is" >>
      [] h = "_handle_weather_command" -> << "The weather in" >>
      [] h = "_handle_help_command"    -> << "Here are the commands" >>
      [] h = "handle_joke_command"     -> << "Why don't scientists" >>
      [] h = "h_empty"                 -> << >>
      [] h = "h_echo"                  -> command

\* the loop over custom_commands.items() and their patterns, from
\* command-type i, pattern j on; checked/detected accumulate the
\* command-types whose patterns were tested / that logged a match
RECURSIVE ScanCommands(_, _, _, _, _, _, _)
ScanCommands(tbl, hs, user_input, i, j, checked, detected) ==
    IF i > Len(tbl)
    THEN [ret |-> None, checked |-> checked, detected |-> detected,
          invoked |-> << >>]
    ELSE IF j > Len(tbl[i].patterns)
    THEN ScanCommands(tbl, hs, user_input, i + 1, 1,
                      IF i + 1 <= Len(tbl)
                      THEN Append(checked, tbl[i + 1].type) ELSE checked,
                      detected)
    ELSE IF Contains(Lower(tbl[i].patterns[j]), Lower(user_input))
    THEN IF tbl[i].type \in DOMAIN hs
         THEN [ret |-> HandlerOutput(hs[tbl[i].type], user_input),
               checked |-> checked,
               detected |-> Append(detected, tbl[i].type),
               invoked |-> << [type |-> tbl[i].type,
                               handler |-> hs[tbl[i].type],
                               arg |-> user_input] >>]
         ELSE ScanCommands(tbl, hs, user_input, i, j + 1, checked,
                           Append(detected, tbl[i].type))
    ELSE ScanCommands(tbl, hs, user_input, i, j + 1, checked, detected)

NotACommand ==
    [ret |-> None, checked |-> << >>, detected |-> << >>, invoked |-> << >>]

\* handle_command with the exit test placed after the command loop
handle_command_exit_last(tbl, hs, user_input) ==
    IF user_input = << >>
    THEN NotACommand
    ELSE LET r == ScanCommands(tbl, hs, user_input, 1, 1,
                      IF Len(tbl) >= 1 THEN << tbl[1].type >> ELSE << >>,
                      << >>)
         IN  IF r.ret = None /\ Lower(user_input) \in exit_commands
             THEN [r EXCEPT !.ret = Goodbye]
             ELSE r

\* CommandHandler.handle_command(user_input)
handle_command(tbl, hs, user_input) ==
    IF user_input = << >>
    THEN NotACommand
    ELSE IF Lower(user_input) \in exit_commands
    THEN [NotACommand EXCEPT !.ret = Goodbye]
    ELSE ScanCommands(tbl, hs, user_input, 1, 1,
                      IF Len(tbl) >= 1 THEN << tbl[1].type >> ELSE << >>,
                      << >>)

-----------------------------------------------------------------------------
(* Translator *)

\* outcome of an external call that raised
Fail == << "Fail" >>

DetectOutcomes == Langs \cup { "fail" }

TranslateOutcomes == TranslatedTexts \cup { Fail }

GenerateOutcomes == Replies \cup { Fail }

\* one call of an external service: which, whether it returned, and what
Call(svc, ok, out) == [svc |-> svc, ok |-> ok, out |-> out]

\* detect_language falling back to a hard-coded "en" instead of the default
detect_language_hardcoded(text, default, det) ==
    [lang  |-> IF det = "fail" THEN "en" ELSE det,
     calls |-> << Call("detect", det # "fail", << det >>) >>]

\* Translator.detect_language(text); det is what langdetect.detect does
detect_language(text, default, det) ==
    [lang  |-> IF det = "fail" THEN default ELSE det,
     calls |-> << Call("detect", det # "fail", << det >>) >>]

\* translate returning "" from its except branch instead of the input text
translate_error_empty(text, source_lang, target_lang, default, det, tr) ==
    IF text = << >>
    THEN [text |-> << >>, calls |-> << >>]
    ELSE LET d == IF source_lang = NoLang
                  THEN detect_language(text, default, det)
                  ELSE [lang |-> source_lang, calls |-> << >>]
         IN  IF d.lang = target_lang
             THEN [text |-> text, calls |-> d.calls]
             ELSE [text  |-> IF tr = Fail THEN << >> ELSE tr,
                   calls |-> Append(d.calls, Call("translate", tr # Fail, tr))]

\* Translator.translate(text, source_lang, target_lang); det and tr are
\* what langdetect and googletrans do if they are called
translate(text, source_lang, target_lang, default, det, tr) ==
    IF text = << >>
    THEN [text |-> << >>, calls |-> << >>]
    ELSE LET d == IF source_lang = NoLang
                  THEN detect_language(text, default, det)
                  ELSE [lang |-> source_lang, calls |-> << >>]
         IN  IF d.lang = target_lang
             THEN [text |-> text, calls |-> d.calls]
             ELSE [text  |-> IF tr = Fail THEN text ELSE tr,
                   calls |-> Append(d.calls, Call("translate", tr # Fail, tr))]

\* translate_to_english without the pivot test of line 128, calling the
\* googletrans object (self.translator.translate) where self.translate
\* was meant
translate_to_english_direct(text, default, det, tr) ==
    LET d == detect_language(text, default, det)
    IN  [lang |-> d.lang, text |-> IF tr = Fail THEN text ELSE tr,
         calls |-> Append(d.calls, Call("translate", tr # Fail, tr))]

\* Translator.translate_to_english(text)
translate_to_english(text, default, det, tr) ==
    LET d == detect_language(text, default, det)
    IN  IF d.lang = "en"
        THEN [lang |-> d.lang, text |-> text, calls |-> d.calls]
        ELSE LET t == translate(text, d.lang, "en", default, det, tr)
             IN  [lang |-> d.lang, text |-> t.text, calls |-> d.calls \o t.calls]

\* Translator.translate_from_english(text, target_lang)
translate_from_english(text, target_lang, default, det, tr) ==
    IF target_lang = "en"
    THEN [text |-> text, calls |-> << >>]
    ELSE translate(text, "en", target_lang, default, det, tr)

-----------------------------------------------------------------------------
(* TextToSpeech *)

\* values of config["speech"]["output"]["engine"]
EngineNames == { "pyttsx3", "riva", "gtts" }

\* TextToSpeech.__init__ (lines 32-42) with _init_pyttsx3 and _init_riva:
\* engine is whether the attribute self.engine exists, riva_client whether
\* self.riva_client does; riva_init_ok is whether _init_riva reached its
\* return of line 122
TextToSpeech(engine_cfg, riva_enabled, riva_init_ok) ==
    IF engine_cfg = "riva" /\ riva_enabled /\ riva_init_ok
    THEN [cfg_engine |-> engine_cfg, riva_enabled |-> riva_enabled,
          engine_type |-> "riva", engine |-> FALSE, riva_client |-> TRUE]
    ELSE [cfg_engine |-> engine_cfg, riva_enabled |-> riva_enabled,
          engine_type |-> "pyttsx3", engine |-> TRUE, riva_client |-> FALSE]

\* what a Riva synthesis followed by playback may do: succeed, or raise in
\* one of the two
RivaOutcomes == { "ok", "synthesize", "play" }

\* TextToSpeech._speak_pyttsx3(text): py is whether say/runAndWait
\* returned; its exception is logged, never raised
speak_pyttsx3(text, py) == << Call("pyttsx3", py, text) >>

\* TextToSpeech._speak_riva(text), lines 162-202
speak_riva(t, text, riva, py) ==
    IF riva = "ok"
    THEN << Call("riva_synthesize", TRUE, text), Call("riva_play", TRUE, text) >>
    ELSE LET tried == IF riva = "synthesize"
                      THEN << Call("riva_synthesize", FALSE, text) >>
                      ELSE << Call("riva_synthesize", TRUE, text),
                              Call("riva_play", FALSE, text) >>
         IN  IF t.engine THEN tried \o speak_pyttsx3(text, py) ELSE tried

\* TextToSpeech.speak(text), lines 136-152: the engine calls it makes
speak(t, text, riva, py) ==
    IF text = << >>
    THEN << >>
    ELSE IF t.engine_type = "pyttsx3"
    THEN speak_pyttsx3(text, py)
    ELSE IF t.engine_type = "riva"
    THEN speak_riva(t, text, riva, py)
    ELSE << >>

-----------------------------------------------------------------------------
(* Chatbot.process_input *)

\* lst[:k] written where lst[-k:] was meant
NegSlice_head(lst, k) == SubSeq(lst, 1, k)

\* Python lst[-k:] for k >= 0 (lst[-0:] is lst[0:], the whole list)
NegSlice(lst, k) ==
    IF k = 0 \/ k >= Len(lst) THEN lst ELSE SubSeq(lst, Len(lst) - k + 1, Len(lst))

\* lines 90-93: append, then trim when longer than max_history
AppendAndTrim(history, text, k) ==
    LET h == Append(history, text)
    IN  IF Len(h) > k THEN NegSlice(h, k) ELSE h

\* the model input rebuilt from the conversation_history window
BotInputIds_fromHistory(ids, text) == Append(conversation_history, text)

\* lines 104-106: the tokens handed to model.generate
BotInputIds(ids, text) ==
    IF ids.isNone THEN << text >> ELSE Append(ids.ids, text)

\* line 80: `if command_response:`
IsCommandResponse(r) == Truthy(r)

\* the gate of line 87 without its `not input_language`
DetectGateAlways(enabled, input_language) == enabled

\* line 87: is translate_to_english called
DetectGate(enabled, input_language) == enabled /\ input_language = NoLang

\* the gate of line 125 without its comparison with the pivot language
ReverseGateAnyLanguage(enabled, detected_language) == enabled

\* line 125: is translate_from_english called
ReverseGate(enabled, detected_language) == enabled /\ detected_language # "en"

\* process_input catching the exception of model.generate and going on
GenerateSwallowed(gen) == FALSE

\* lines 109-118: model.generate is called outside any try block, so its
\* exception leaves process_input
GenerateRaises(gen) == gen = Fail

\* the append of line 90 undone when model.generate raises
HistoryRolledBack(before, after) == before

\* conversation_history when model.generate raises: lines 90-93 ran
\* before the call and nothing restores the former list
HistoryAfterFailure(before, after) == after

Obs0 ==
    [op |-> "none", arg |-> None, lang |-> NoLang, ret |-> None,
     raised |-> FALSE, calls |-> << >>, checked |-> << >>,
     detected |-> << >>, invoked |-> << >>, pivot |-> None,
     turn_lang |-> NoLang, reply |-> None, sent |-> << >>,
     printed |-> << >>, reversed |-> FALSE, exc |-> None]

\* Chatbot.process_input(user_input, input_language): the new history,
\* the new chat_history_ids and the observation of the call.  det, tr,
\* gen and back are what langdetect, googletrans (forward), the model and
\* googletrans (backward) do if they are reached.
process_input(history, ids, user_input, input_language, det, tr, gen, back) ==
    LET cmd == handle_command(custom_commands, builtin_handlers, user_input)
        obs == [Obs0 EXCEPT !.op = "process_input", !.arg = user_input,
                            !.lang = input_language,
                            !.checked = cmd.checked,
                            !.detected = cmd.detected,
                            !.invoked = cmd.invoked]
    IN  IF IsCommandResponse(cmd.ret)
        THEN [history |-> history, ids |-> ids,
              obs |-> [obs EXCEPT !.ret = cmd.ret]]
        ELSE
        LET tp == IF DetectGate(translation_enabled, input_language)
                  THEN translate_to_english(user_input, default_language, det, tr)
                  ELSE [lang |-> input_language, text |-> user_input,
                        calls |-> << >>]
            h2 == AppendAndTrim(history, tp.text, max_history)
            bot_input_ids == BotInputIds(ids, tp.text)
            obs2 == [obs EXCEPT !.pivot = tp.text, !.turn_lang = tp.lang,
                                !.sent = bot_input_ids]
        IN  IF GenerateRaises(gen)
            THEN [history |-> HistoryAfterFailure(history, h2), ids |-> ids,
                  obs |-> [obs2 EXCEPT !.raised = TRUE,
                             !.calls = Append(tp.calls,
                                              Call("generate", gen # Fail, gen))]]
            ELSE
            LET calls3 == Append(tp.calls, Call("generate", gen # Fail, gen))
                rt == IF ReverseGate(translation_enabled, tp.lang)
                      THEN translate_from_english(gen, tp.lang,
                                                  default_language, det, back)
                      ELSE [text |-> gen, calls |-> << >>]
            IN  [history |-> h2, ids |-> Ids(Append(bot_input_ids, gen)),
                 obs |-> [obs2 EXCEPT !.reply = gen, !.ret = rt.text,
                                      !.reversed =
                                          ReverseGate(translation_enabled,
                                                      tp.lang),
                                      !.calls = calls3 \o rt.calls]]

-----------------------------------------------------------------------------
(* Operations *)

\* Chatbot.__init__ (lines 40-53) and CommandHandler.__init__ (lines 30-39)
Init ==
    /\ max_history \in 0..MaxK
    /\ translation_enabled \in BOOLEAN
    /\ default_language \in Langs
    /\ use_voice_input = FALSE
    /\ tts = TextToSpeech("pyttsx3", FALSE, FALSE)
    /\ custom_commands = ConfiguredCommands
    /\ builtin_handlers = InitialHandlers
    /\ conversation_history = << >>
    /\ chat_history_ids = NoIds
    /\ pc = "created"
    /\ appended = << >>
    /\ last = Obs0

Idle == last.op = "none"

\* outcomes of langdetect worth telling apart: it is only reached through
\* the gate of line 87
DetectChoices(input_language) ==
    IF DetectGate(translation_enabled, input_language)
    THEN DetectOutcomes ELSE { "fail" }

\* outcomes of googletrans worth telling apart: it is only reached when
\* translation is enabled
TranslateChoices == IF translation_enabled THEN TranslateOutcomes ELSE { Fail }

\* the ghost list of appended texts after a call that observed obs
Appended(app, obs) ==
    IF obs.pivot = None THEN app ELSE Append(app, obs.pivot)

\* a caller invokes chatbot.process_input(user_input, input_language)
ProcessInput(user_input, input_language, det, tr, gen, back) ==
    LET r == process_input(conversation_history, chat_history_ids, user_input,
                           input_language, det, tr, gen, back)
    IN  /\ Idle
        /\ pc = "created"
        /\ Len(appended) < MaxTurns
        /\ conversation_history' = r.history
        /\ chat_history_ids' = r.ids
        /\ appended' = Appended(appended, r.obs)
        /\ last' = r.obs
        /\ UNCHANGED << config, handler_state, pc >>

\* add_custom_command_handler without the membership test of line 147
AddCustomCommandHandler_unchecked(command_type, handler_function) ==
    /\ Idle
    /\ pc = "created"
    /\ builtin_handlers' =
            [t \in DOMAIN builtin_handlers \cup { command_type } |->
                IF t = command_type THEN handler_function
                ELSE builtin_handlers[t]]
    /\ last' = [Obs0 EXCEPT !.op = "add_custom_command_handler",
                            !.arg = << command_type, handler_function >>,
                            !.ret = << "True" >>]
    /\ UNCHANGED << config, custom_commands, chat_state, pc >>

\* command_handler.add_custom_command_handler(command_type, handler_function)
AddCustomCommandHandler(command_type, handler_function) ==
    /\ Idle
    /\ pc = "created"
    /\ IF command_type \notin Types(custom_commands)
       THEN /\ last' = [Obs0 EXCEPT !.op = "add_custom_command_handler",
                                    !.arg = << command_type, handler_function >>,
                                    !.ret = << "False" >>]
            /\ UNCHANGED builtin_handlers
       ELSE /\ builtin_handlers' =
                [t \in DOMAIN builtin_handlers \cup { command_type } |->
                    IF t = command_type THEN handler_function
                    ELSE builtin_handlers[t]]
            /\ last' = [Obs0 EXCEPT !.op = "add_custom_command_handler",
                                    !.arg = << command_type, handler_function >>,
                                    !.ret = << "True" >>]
    /\ UNCHANGED << config, custom_commands, chat_state, pc >>

\* the call returns to its caller, which is then free to make the next one
Return ==
    /\ ~Idle
    /\ pc \notin { "wake", "capture" }
    /\ last' = Obs0
    /\ UNCHANGED << config, handler_state, chat_state, pc >>

Next ==
    \/ \E u \in Utterances, l \in Langs \cup { NoLang } :
       \E det \in DetectChoices(l), tr \in TranslateChoices,
          gen \in GenerateOutcomes, back \in TranslateChoices :
            ProcessInput(u, l, det, tr, gen, back)
    \/ \E t \in { "joke", "music" } : AddCustomCommandHandler(t, "h_empty")
    \/ Return

Spec == Init /\ [][Next]_vars

-----------------------------------------------------------------------------
(* CommandHandler used on its own, as in examples/example_usage.py *)

\* a caller invokes cmd_handler.handle_command(user_input)
HandleCommand(user_input) ==
    LET r == handle_command(custom_commands, builtin_handlers, user_input)
    IN  /\ Idle
        /\ pc = "created"
        /\ last' = [Obs0 EXCEPT !.op = "handle_command", !.arg = user_input,
                                !.ret = r.ret, !.checked = r.checked,
                                !.detected = r.detected,
                                !.invoked = r.invoked]
        /\ UNCHANGED << config, handler_state, chat_state, pc >>

\* utterances handed to the command handler: one more, with a trigger
\* phrase of "joke" only
CommandUtterances == Utterances \cup { << "x", "J" >> }

NextCommands ==
    \/ \E u \in CommandUtterances : HandleCommand(u)
    \/ \E t \in { "joke", "time", "date", "music" }, h \in CustomHandlers :
            AddCustomCommandHandler(t, h)
    \/ Return

SpecCommands == Init /\ [][NextCommands]_vars

-----------------------------------------------------------------------------
(* Translator used on its own *)

\* texts a caller may hand to the translator
TranslatorTexts == CommandUtterances \cup Replies \cup TranslatedTexts

\* a caller invokes translator.translate_to_english(text)
TranslateToEnglish(text, det, tr) ==
    LET r == translate_to_english(text, default_language, det, tr)
    IN  /\ last' = [Obs0 EXCEPT !.op = "translate_to_english", !.arg = text,
                                !.turn_lang = r.lang, !.ret = r.text,
                                !.calls = r.calls]
        /\ UNCHANGED << config, handler_state, chat_state, pc >>

\* a caller invokes translator.translate_from_english(text, target_lang)
TranslateFromEnglish(text, target_lang, det, tr) ==
    LET r == translate_from_english(text, target_lang, default_language, det, tr)
    IN  /\ last' = [Obs0 EXCEPT !.op = "translate_from_english", !.arg = text,
                                !.lang = target_lang, !.ret = r.text,
                                !.calls = r.calls]
        /\ UNCHANGED << config, handler_state, chat_state, pc >>

\* a caller invokes translator.translate(text, source_lang, target_lang)
Translate(text, source_lang, target_lang, det, tr) ==
    LET r == translate(text, source_lang, target_lang, default_language, det, tr)
    IN  /\ last' = [Obs0 EXCEPT !.op = "translate", !.arg = text,
                                !.lang = target_lang,
                                !.turn_lang = source_lang, !.ret = r.text,
                                !.calls = r.calls]
        /\ UNCHANGED << config, handler_state, chat_state, pc >>

\* Translator.__init__ (line 44): only the default language matters
InitTranslator ==
    /\ default_language \in Langs
    /\ max_history = 0
    /\ translation_enabled = TRUE
    /\ use_voice_input = FALSE
    /\ tts = TextToSpeech("pyttsx3", FALSE, FALSE)
    /\ custom_commands = ConfiguredCommands
    /\ builtin_handlers = InitialHandlers
    /\ conversation_history = << >>
    /\ chat_history_ids = NoIds
    /\ pc = "created"
    /\ appended = << >>
    /\ last = Obs0

NextTranslator ==
    \/ \E text \in TranslatorTexts, det \in DetectOutcomes,
          tr \in TranslateOutcomes : TranslateToEnglish(text, det, tr)
    \/ \E text \in TranslatorTexts, target \in Langs,
          tr \in TranslateOutcomes : TranslateFromEnglish(text, target, "fail", tr)
    \/ \E text \in TranslatorTexts, src \in Langs \cup { NoLang },
          target \in Langs, det \in DetectOutcomes, tr \in TranslateOutcomes :
            Translate(text, src, target, det, tr)

SpecTranslator == InitTranslator /\ [][NextTranslator]_vars

-----------------------------------------------------------------------------
(* Chatbot.start *)

Banner == << "Chatbot initialized." >>

ExitingMsg == << "Exiting chatbot..." >>

ErrorMsg == << "An error occurred" >>

TerminatedMsg == << "Chatbot terminated." >>

KeyboardInterrupt == << "KeyboardInterrupt" >>

InputError == << "Exception" >>

\* what obtaining the next utterance may yield (line 165 / line 168)
InputOutcomes == Utterances \cup { KeyboardInterrupt, InputError }

\* line 172: the loop's own exit test
IsExitInput(user_input) == Lower(user_input) \in exit_commands

\* self.speak(text) returned
Spoken == << "spoken" >>

\* what self.speak may do (lines 151-155): return, or let an interrupt or
\* an exception through
SpeakOutcomes == { Spoken, KeyboardInterrupt, InputError }

\* the message of the handler that catches exc (lines 182-186)
ExceptMsg(exc) == IF exc = KeyboardInterrupt THEN ExitingMsg ELSE ErrorMsg

\* the exit branch without its `break`
AfterExitContinue == "loop"

\* where the loop goes after the exit phrase: `break` (line 174)
AfterExit == "terminated"

\* the handlers of lines 182-186 placed inside the while loop
AfterTurnErrorContinue == "loop"

\* where the loop goes when process_input or speak raised: the handlers
\* of lines 182-186 are outside the while loop
AfterTurnError == "terminated"

\* what start() prints on its way out of the loop through pc value p
Farewell(p, msg) ==
    IF p = "terminated" THEN << msg, TerminatedMsg >> ELSE << msg >>

\* Chatbot.__init__ with either input mode
InitSession ==
    /\ max_history \in 0..MaxK
    /\ translation_enabled \in BOOLEAN
    /\ default_language \in Langs
    /\ use_voice_input \in BOOLEAN
    /\ tts = TextToSpeech("pyttsx3", FALSE, FALSE)
    /\ custom_commands = ConfiguredCommands
    /\ builtin_handlers = InitialHandlers
    /\ conversation_history = << >>
    /\ chat_history_ids = NoIds
    /\ pc = "created"
    /\ appended = << >>
    /\ last = Obs0

\* start() is entered: line 159
Start ==
    /\ Idle
    /\ pc = "created"
    /\ pc' = "loop"
    /\ last' = [Obs0 EXCEPT !.op = "start", !.printed = << Banner >>]
    /\ UNCHANGED << config, handler_state, chat_state >>

\* the languages listen() may report (None in text mode, line 169)
InputLanguages == IF use_voice_input THEN Langs ELSE { NoLang }

\* one iteration of the loop of start(), lines 162-188; spk is what
\* self.speak does if it is reached
SessionTurn(inp, language, det, tr, gen, back, spk) ==
    /\ Idle
    /\ pc = "loop"
    /\ Len(appended) < MaxTurns
    /\ use_voice_input => inp # << >>
    /\ IF inp \in { KeyboardInterrupt, InputError }
       THEN /\ pc' = "terminated"
            /\ last' = [Obs0 EXCEPT !.op = "turn", !.arg = inp,
                                    !.raised = TRUE, !.exc = inp,
                                    !.printed = << ExceptMsg(inp),
                                                   TerminatedMsg >>]
            /\ UNCHANGED chat_state
       ELSE IF IsExitInput(inp)
       THEN /\ UNCHANGED chat_state
            /\ IF spk = Spoken
               THEN /\ pc' = AfterExit
                    /\ last' = [Obs0 EXCEPT !.op = "turn", !.arg = inp,
                                    !.lang = language, !.ret = Goodbye,
                                    !.printed = Farewell(AfterExit, Goodbye)]
               ELSE /\ pc' = AfterTurnError
                    /\ last' = [Obs0 EXCEPT !.op = "turn", !.arg = inp,
                                    !.lang = language, !.ret = Goodbye,
                                    !.raised = TRUE, !.exc = spk,
                                    !.printed = Farewell(AfterTurnError,
                                                         ExceptMsg(spk))]
       ELSE LET r == process_input(conversation_history, chat_history_ids,
                                   inp, language, det, tr, gen, back)
            IN  /\ conversation_history' = r.history
                /\ chat_history_ids' = r.ids
                /\ appended' = Appended(appended, r.obs)
                /\ IF r.obs.raised
                   THEN /\ pc' = AfterTurnError
                        /\ last' = [r.obs EXCEPT !.op = "turn",
                                       !.exc = InputError,
                                       !.printed = Farewell(AfterTurnError,
                                                       ExceptMsg(InputError))]
                   ELSE IF spk = Spoken
                   THEN /\ pc' = "loop"
                        /\ last' = [r.obs EXCEPT !.op = "turn",
                                       !.printed = << r.obs.ret >>]
                   ELSE /\ pc' = AfterTurnError
                        /\ last' = [r.obs EXCEPT !.op = "turn",
                                       !.raised = TRUE, !.exc = spk,
                                       !.printed = Farewell(AfterTurnError,
                                                            ExceptMsg(spk))]
    /\ UNCHANGED << config, handler_state >>

NextSession ==
    \/ Start
    \/ \E inp \in InputOutcomes, l \in InputLanguages :
       \E det \in DetectChoices(l), tr \in TranslateChoices,
          gen \in GenerateOutcomes, back \in TranslateChoices,
          spk \in SpeakOutcomes :
            SessionTurn(inp, l, det, tr, gen, back, spk)
    \/ Return

SpecSession == InitSession /\ [][NextSession]_vars

-----------------------------------------------------------------------------
(* Chatbot.listen *)

\* config["wake_word"]
wake_word == << "J" >>

\* sr.Microphone or the ambient-noise adjustment raised
MicError == << "MicError" >>

\* what the recogniser may hear while waiting for the wake word: a text,
\* nothing it understands (timeout, unknown value, request error), or a
\* microphone error
HeardOutcomes == { << "x" >>, << "x", "J" >>, << "j" >>, Fail, MicError }

\* what listen_and_transcribe may transcribe: a text, the empty text, or
\* nothing (it then returns (None, None))
CaptureOutcomes == { << "x" >>, << "b", "A" >>, << >>, None, MicError }

\* listen_for_wake_word answering True whenever anything was recognised
listen_for_wake_word_any(word, heard) == heard # Fail

\* SpeechToText.listen_for_wake_word(wake_word): heard is what
\* recognize_google yields, Fail when one of the caught errors occurs
listen_for_wake_word(word, heard) ==
    heard # Fail /\ Contains(Lower(word), Lower(Lower(heard)))

\* Chatbot.__init__ in either input mode, before listen is called
InitListen ==
    /\ max_history = 0
    /\ translation_enabled = FALSE
    /\ default_language \in Langs
    /\ use_voice_input \in BOOLEAN
    /\ tts = TextToSpeech("pyttsx3", FALSE, FALSE)
    /\ custom_commands = ConfiguredCommands
    /\ builtin_handlers = InitialHandlers
    /\ conversation_history = << >>
    /\ chat_history_ids = NoIds
    /\ pc = "created"
    /\ appended = << >>
    /\ last = Obs0

\* listen() is entered: in text mode it returns input("You: ") (line 133),
\* in voice mode it enters the loop of line 136
Listen(inp) ==
    /\ Idle
    /\ pc = "created"
    /\ IF use_voice_input
       THEN /\ pc' = "wake"
            /\ last' = [Obs0 EXCEPT !.op = "listen"]
       ELSE /\ pc' = pc
            /\ last' = [Obs0 EXCEPT !.op = "listen", !.ret = inp]
    /\ UNCHANGED << config, handler_state, chat_state >>

\* lines 137-138 and 149: one wake-word check and the test of its answer
WakeWord(heard) ==
    /\ pc = "wake"
    /\ Len(last.calls) < MaxListen
    /\ IF heard = MicError
       THEN /\ pc' = "created"
            /\ last' = [last EXCEPT !.raised = TRUE, !.exc = MicError,
                            !.calls = Append(@, Call("wake", FALSE, heard))]
       ELSE LET wake_word_detected == listen_for_wake_word(wake_word, heard)
            IN  /\ pc' = IF wake_word_detected THEN "capture" ELSE "wake"
                /\ last' = [last EXCEPT
                     !.calls = Append(@, Call("wake", wake_word_detected,
                                              heard))]
    /\ UNCHANGED << config, handler_state, chat_state >>

\* lines 144-146: the capture after a detection; text and language are
\* what listen_and_transcribe returns
Capture(text, language) ==
    /\ pc = "capture"
    /\ Len(last.calls) < MaxListen
    /\ IF text = MicError
       THEN /\ pc' = "created"
            /\ last' = [last EXCEPT !.raised = TRUE, !.exc = MicError,
                            !.calls = Append(@, Call("capture", FALSE, text))]
       ELSE IF Truthy(text)
       THEN /\ pc' = "created"
            /\ last' = [last EXCEPT !.ret = text, !.lang = language,
                            !.calls = Append(@, Call("capture", TRUE, text))]
       ELSE /\ pc' = "wake"
            /\ last' = [last EXCEPT
                            !.calls = Append(@, Call("capture", FALSE, text))]
    /\ UNCHANGED << config, handler_state, chat_state >>

NextListen ==
    \/ \E inp \in Utterances : Listen(inp)
    \/ \E heard \in HeardOutcomes : WakeWord(heard)
    \/ \E text \in CaptureOutcomes, l \in Langs : Capture(text, l)
    \/ Return

SpecListen == InitListen /\ [][NextListen]_vars

-----------------------------------------------------------------------------
(* custom_commands_example of examples/example_usage.py *)

\* the command table of a config file that has no "joke" entry
CommandsWithoutJoke ==
    << [type |-> "time", patterns |-> << << "q", "q" >>, << "A" >> >>],
       [type |-> "date", patterns |-> << << "b" >> >>] >>

\* the trigger phrases the example assigns to "joke" (line 111)
JokePatterns == << << "j" >> >>

\* Python d[key] = value on the ordered dict tbl: an existing key keeps
\* its place, a new key goes last
SetPatterns(tbl, type, patterns) ==
    IF type \in Types(tbl)
    THEN [i \in 1..Len(tbl) |->
             IF tbl[i].type = type
             THEN [type |-> type, patterns |-> patterns] ELSE tbl[i]]
    ELSE Append(tbl, [type |-> type, patterns |-> patterns])

\* lines 88-92: the config is loaded and CommandHandler(config) built; the
\* config file is not part of the sources, so its command table may or
\* may not have a "joke" entry already
InitExample ==
    /\ max_history \in 0..MaxK
    /\ translation_enabled \in BOOLEAN
    /\ default_language \in Langs
    /\ use_voice_input = FALSE
    /\ tts = TextToSpeech("pyttsx3", FALSE, FALSE)
    /\ custom_commands \in { CommandsWithoutJoke, ConfiguredCommands }
    /\ builtin_handlers = InitialHandlers
    /\ conversation_history = << >>
    /\ chat_history_ids = NoIds
    /\ pc = "example_register"
    /\ appended = << >>
    /\ last = Obs0

\* line 108: cmd_handler.add_custom_command_handler("joke",
\* handle_joke_command), its result discarded
ExampleRegister ==
    /\ pc = "example_register"
    /\ pc' = "example_patterns"
    /\ IF "joke" \notin Types(custom_commands)
       THEN /\ last' = [Obs0 EXCEPT !.op = "add_custom_command_handler",
                            !.arg = << "joke", "handle_joke_command" >>,
                            !.ret = << "False" >>]
            /\ UNCHANGED builtin_handlers
       ELSE /\ builtin_handlers' =
                [t \in DOMAIN builtin_handlers \cup { "joke" } |->
                    IF t = "joke" THEN "handle_joke_command"
                    ELSE builtin_handlers[t]]
            /\ last' = [Obs0 EXCEPT !.op = "add_custom_command_handler",
                            !.arg = << "joke", "handle_joke_command" >>,
                            !.ret = << "True" >>]
    /\ UNCHANGED << config, custom_commands, chat_state >>

\* lines 111-117: the joke phrases are put in the config dict, which is
\* the dict cmd_handler.custom_commands refers to (command_handler.py
\* line 30), and the chatbot is built around cmd_handler
ExamplePatterns ==
    /\ pc = "example_patterns"
    /\ pc' = "created"
    /\ custom_commands' = SetPatterns(custom_commands, "joke", JokePatterns)
    /\ last' = [Obs0 EXCEPT !.op = "set_patterns", !.arg = << "joke" >>]
    /\ UNCHANGED << config, builtin_handlers, chat_state >>

\* utterances of the example session: one with a joke phrase, one without
ExampleUtterances == { << "x", "J" >>, << "x" >> }

NextExample ==
    \/ ExampleRegister
    \/ ExamplePatterns
    \/ \E u \in ExampleUtterances :
       \E det \in DetectChoices(NoLang), tr \in TranslateChoices,
          gen \in GenerateOutcomes, back \in TranslateChoices :
            ProcessInput(u, NoLang, det, tr, gen, back)
    \/ Return

SpecExample == InitExample /\ [][NextExample]_vars

-----------------------------------------------------------------------------
(* TextToSpeech used on its own *)

\* TextToSpeech(config) for every engine setting and either fate of the
\* Riva client
InitSpeech ==
    /\ \E e \in EngineNames, enabled \in BOOLEAN, ok \in BOOLEAN :
            tts = TextToSpeech(e, enabled, ok)
    /\ max_history = 0
    /\ translation_enabled = FALSE
    /\ default_language = "en"
    /\ use_voice_input = FALSE
    /\ custom_commands = ConfiguredCommands
    /\ builtin_handlers = InitialHandlers
    /\ conversation_history = << >>
    /\ chat_history_ids = NoIds
    /\ pc = "created"
    /\ appended = << >>
    /\ last = Obs0

\* texts handed to speak: replies, handler outputs, the farewell
SpokenTexts == TranslatorTexts \cup { Goodbye }

\* a caller invokes tts.speak(text)
Speak(text, riva, py) ==
    /\ Idle
    /\ last' = [Obs0 EXCEPT !.op = "speak", !.arg = text,
                            !.calls = speak(tts, text, riva, py)]
    /\ UNCHANGED << config, handler_state, chat_state, pc >>

NextSpeech ==
    \/ \E text \in SpokenTexts, riva \in RivaOutcomes, py \in BOOLEAN :
            Speak(text, riva, py)
    \/ Return

SpecSpeech == InitSpeech /\ [][NextSpeech]_vars

-----------------------------------------------------------------------------
(* Properties *)

\* the last min(k, Len(s)) items of s, oldest first
LastK(s, k) == IF Len(s) <= k THEN s ELSE SubSeq(s, Len(s) - k + 1, Len(s))

InSeq(x, s) == \E i \in 1..Len(s) : s[i] = x

\* the positions of the command-types of tbl with a trigger phrase in u
MatchingTypes(tbl, u) ==
    { i \in 1..Len(tbl) :
        \E j \in 1..Len(tbl[i].patterns) :
            Contains(Lower(tbl[i].patterns[j]), Lower(u)) }

HasTrigger(tbl, u) == MatchingTypes(tbl, u) # { }

FirstMatch(tbl, u) ==
    CHOOSE i \in MatchingTypes(tbl, u) : \A j \in MatchingTypes(tbl, u) : i <= j

FailedCall(obs, svc) ==
    \E i \in 1..Len(obs.calls) : obs.calls[i].svc = svc /\ ~obs.calls[i].ok

MadeCall(obs, svc) == \E i \in 1..Len(obs.calls) : obs.calls[i].svc = svc

\* a googletrans call made after the model was called, with outcome ok
ReverseCall(obs, ok) ==
    \E i, j \in 1..Len(obs.calls) :
        /\ i < j
        /\ obs.calls[i].svc = "generate"
        /\ obs.calls[j].svc = "translate"
        /\ obs.calls[j].ok = ok

\* the language detect_language settled on during the observed call
DetectedLang(obs) ==
    IF obs.calls[1].ok THEN obs.calls[1].out[1] ELSE default_language

\* the observed call was a process_input that was not short-circuited
NonCommandTurn(obs) == obs.op = "process_input" /\ obs.pivot # None

\* C1: after N non-command turns with max_history = k, conversation_history
\* has length min(N, k) and is the last k appended pivot texts, oldest first.
C1_HistoryBound == conversation_history = LastK(appended, max_history)

\* C2: a process_input call whose utterance contains a configured trigger
\* phrase leaves conversation_history and chat_history_ids as they were,
\* and the utterance is not in conversation_history afterwards.
C2_CommandShortCircuit ==
    [][(last'.op = "process_input" /\ HasTrigger(custom_commands, last'.arg))
         => /\ conversation_history' = conversation_history
            /\ chat_history_ids' = chat_history_ids
            /\ ~InSeq(last'.arg, conversation_history')]_vars

\* C3: for a non-exit utterance with trigger phrases of two or more
\* command-types, handle_command invokes the handler of the first declared
\* matching command-type and checks no command-type declared after it.
C3_FirstMatchWins ==
    (/\ last.op = "handle_command"
     /\ last.arg # << >>
     /\ Lower(last.arg) \notin exit_commands
     /\ Cardinality(MatchingTypes(custom_commands, last.arg)) >= 2)
    => LET f == FirstMatch(custom_commands, last.arg)
       IN  /\ Len(last.invoked) = 1
           /\ last.invoked[1].type = custom_commands[f].type
           /\ last.checked = [i \in 1..f |-> custom_commands[i].type]

\* C4: an utterance whose lowercased text is an exit phrase and which also
\* contains a trigger phrase gets the farewell, and no handler is invoked.
C4_ExitPrecedence ==
    (/\ last.op = "handle_command"
     /\ Lower(last.arg) \in exit_commands
     /\ HasTrigger(custom_commands, last.arg))
    => (last.ret = Goodbye /\ last.invoked = << >>)

C4_Witness ==
    /\ last.op = "handle_command"
    /\ Lower(last.arg) \in exit_commands
    /\ last.arg \notin exit_commands
    /\ Cardinality(MatchingTypes(custom_commands, last.arg)) >= 2
    /\ last.ret = Goodbye

\* C5: a loop iteration whose utterance is an exit phrase speaks the
\* farewell, leaves conversation_history and chat_history_ids unchanged and
\* terminates the loop; once terminated, the loop takes no further turn.
C5_ExitTurn ==
    [][/\ (last'.op = "turn" /\ last' # last /\ IsExitInput(last'.arg))
            => /\ last'.ret = Goodbye
               /\ ~last'.raised => Head(last'.printed) = Goodbye
               /\ pc' = "terminated"
               /\ conversation_history' = conversation_history
               /\ chat_history_ids' = chat_history_ids
       /\ pc = "terminated"
            => /\ pc' = "terminated"
               /\ last'.op # "turn"
               /\ UNCHANGED chat_state]_vars

C5_Witness ==
    /\ pc = "terminated"
    /\ last.op = "turn"
    /\ IsExitInput(last.arg)
    /\ conversation_history # << >>

C7_PivotIdempotence ==
    /\ (last.op = "translate_to_english" /\ DetectedLang(last) = "en")
           => /\ last.turn_lang = "en"
              /\ last.ret = last.arg
              /\ ~MadeCall(last, "translate")
    /\ (last.op = "translate_from_english" /\ last.lang = "en")
           => /\ last.ret = last.arg
              /\ ~MadeCall(last, "translate")

C7_Witness ==
    /\ last.op = "translate_to_english"
    /\ DetectedLang(last) = "en"
    /\ last.arg # << >>
    /\ last.ret = last.arg

C9_GenerationFailureFatal ==
    (last.op = "process_input" /\ FailedCall(last, "generate"))
    => /\ last.raised
       /\ last.ret = None
       /\ last.reply = None
       /\ last.calls[Len(last.calls)].svc = "generate"

C9_Witness ==
    /\ NonCommandTurn(last)
    /\ FailedCall(last, "generate")
    /\ translation_enabled
    /\ last.turn_lang = "fr"
    /\ last.raised

CouldNotGenerate == << "I couldn't generate a response" >>

\* C10: when the model fails during a turn of the session loop, the user
\* gets an explicit could-not-generate response and the loop goes on.
C10_GenerationFailureKeepsSession ==
    (last.op = "turn" /\ FailedCall(last, "generate"))
    => (pc = "loop" /\ last.printed = << CouldNotGenerate >>)

\* C11: add_custom_command_handler(label, h) returns True and makes h the
\* handler of label (every other label keeping its handler) exactly when
\* label is a command-type of the configured table at the time of the
\* call; otherwise it returns False and leaves the handler table and the
\* command table unchanged.
C11_HandlerRegistration ==
    [][(last'.op = "add_custom_command_handler" /\ last' # last)
         => LET label == last'.arg[1]
                h     == last'.arg[2]
            IN  /\ custom_commands' = custom_commands
                /\ IF label \in Types(custom_commands)
                   THEN /\ last'.ret = << "True" >>
                        /\ label \in DOMAIN builtin_handlers'
                        /\ builtin_handlers'[label] = h
                        /\ DOMAIN builtin_handlers' =
                               DOMAIN builtin_handlers \cup { label }
                        /\ \A t \in DOMAIN builtin_handlers \ { label } :
                               builtin_handlers'[t] = builtin_handlers[t]
                   ELSE /\ last'.ret = << "False" >>
                        /\ builtin_handlers' = builtin_handlers]_vars

C11_Witness ==
    /\ last.op = "add_custom_command_handler"
    /\ last.arg = << "joke", "h_echo" >>
    /\ last.ret = << "True" >>
    /\ builtin_handlers["joke"] = "h_echo"
    /\ builtin_handlers["time"] = "_handle_time_command"

\* C12: when the first command-type whose trigger occurs in a non-exit
\* utterance has no registered handler, handle_command returns None and
\* invokes no handler, whatever other command-types are configured.
C12_UnregisteredLabel ==
    (/\ last.op = "handle_command"
     /\ last.arg # << >>
     /\ Lower(last.arg) \notin exit_commands
     /\ HasTrigger(custom_commands, last.arg)
     /\ custom_commands[FirstMatch(custom_commands, last.arg)].type
            \notin DOMAIN builtin_handlers)
    => (last.ret = None /\ last.invoked = << >>)

\* C13: when a handler is invoked during process_input, it is called with
\* the original utterance, and the turn returns exactly the handler's
\* string, the empty string included, without calling translation or
\* generation.
C13_HandlerOutputVerbatim ==
    (last.op = "process_input" /\ last.invoked # << >>)
    => /\ last.invoked[1].arg = last.arg
       /\ last.ret = HandlerOutput(last.invoked[1].handler, last.arg)
       /\ last.calls = << >>
       /\ last.pivot = None

\* C14: in a non-command turn whose language is supplied by the caller, no
\* detection and no translation to the pivot language take place: the text
\* appended to conversation_history and the last text sent to the model
\* are the raw utterance, and the language of the rest of the turn is the
\* supplied one.
C14_KnownLanguage ==
    (NonCommandTurn(last) /\ last.lang # NoLang)
    => /\ ~MadeCall(last, "detect")
       /\ last.calls[1].svc = "generate"
       /\ last.pivot = last.arg
       /\ appended[Len(appended)] = last.arg
       /\ conversation_history # << >>
       /\ conversation_history[Len(conversation_history)] = last.arg
       /\ last.sent[Len(last.sent)] = last.arg
       /\ last.turn_lang = last.lang

C14_Witness ==
    /\ NonCommandTurn(last)
    /\ last.lang = "fr"
    /\ translation_enabled
    /\ last.arg # << >>
    /\ last.ret = << "y" >>
    /\ last.reply = << "r" >>

\* C15: in a non-command turn whose generation succeeds,
\* translate_from_english is called on the reply exactly when translation
\* is enabled and the turn's language is not the pivot language; otherwise
\* the reply is returned unchanged and no translation follows generation.
C15_ReverseGate ==
    (NonCommandTurn(last) /\ ~last.raised)
    => /\ last.reversed <=> (translation_enabled /\ last.turn_lang # "en")
       /\ ~last.reversed
            => /\ last.ret = last.reply
               /\ last.calls[Len(last.calls)].svc = "generate"

C15_Witness ==
    /\ NonCommandTurn(last)
    /\ last.reversed
    /\ last.lang = NoLang
    /\ last.turn_lang = "fr"
    /\ last.reply = << "r" >>
    /\ last.ret = << "y" >>

\* s is a non-empty suffix of t
IsSuffix(s, t) ==
    /\ Len(s) >= 1
    /\ Len(s) <= Len(t)
    /\ s = SubSeq(t, Len(t) - Len(s) + 1, Len(t))

\* C16: chat_history_ids is None until a non-command turn completes
\* generation; a completed non-command turn appends its pivot text to
\* conversation_history once and replaces chat_history_ids by what the model
\* returned in that turn; a step that is not a non-command turn changes
\* neither; and neither is ever set back to its initial value.
C16_ContextLifecycle ==
    [][LET turn == last'.op = "process_input" /\ last'.pivot # None
          done == turn /\ ~last'.raised
       IN  /\ (chat_history_ids.isNone /\ ~chat_history_ids'.isNone) => done
           /\ ~chat_history_ids.isNone => ~chat_history_ids'.isNone
           /\ conversation_history # << >> => conversation_history' # << >>
           /\ done
                => /\ appended' = Append(appended, last'.pivot)
                   /\ IsSuffix(conversation_history',
                               Append(conversation_history, last'.pivot))
                   /\ ~chat_history_ids'.isNone
                   /\ chat_history_ids'.ids = Append(last'.sent, last'.reply)
                   /\ chat_history_ids' # chat_history_ids
           /\ ~turn => UNCHANGED << conversation_history, chat_history_ids >>
           /\ ~done => UNCHANGED chat_history_ids]_vars

C16_Witness ==
    /\ NonCommandTurn(last)
    /\ ~last.raised
    /\ Len(appended) = 2
    /\ Len(conversation_history) = 1
    /\ Len(chat_history_ids.ids) = 4

\* the context carried by a chat_history_ids value: nothing when it is None
Context(ids) == IF ids.isNone THEN << >> ELSE ids.ids

\* C17: on every non-command turn the input handed to the model is the
\* context stored before the turn (nothing on the first turn) followed by
\* the turn's pivot text; it does not depend on conversation_history, so a
\* text evicted from the max_history window is still part of it.
C17_GenerationRequest ==
    [][(last'.op = "process_input" /\ last'.pivot # None)
         => /\ last'.sent = Append(Context(chat_history_ids), last'.pivot)
            /\ chat_history_ids.isNone => last'.sent = << last'.pivot >>
            /\ \A i \in 1..Len(Context(chat_history_ids)) :
                   last'.sent[i] = chat_history_ids.ids[i]]_vars

C17_Witness ==
    /\ NonCommandTurn(last)
    /\ Len(appended) = 2
    /\ conversation_history = << appended[2] >>
    /\ appended[1] # appended[2]
    /\ last.sent = << appended[1], << "r" >>, appended[2] >>

\* C18: start() never leaves through an exception: an exit phrase, a
\* KeyboardInterrupt, or an exception raised while obtaining the input,
\* processing the turn or speaking ends the loop with the termination
\* message as the last output; any other turn stays in the loop; and once
\* the loop has ended no further utterance is read or processed.
C18_SessionTermination ==
    [][/\ pc' \in { "created", "loop", "terminated" }
       /\ (last'.op = "turn" /\ pc = "loop")
            => IF IsExitInput(last'.arg) \/ last'.exc # None
               THEN /\ pc' = "terminated"
                    /\ last'.printed[Len(last'.printed)] = TerminatedMsg
                    /\ last'.exc # None
                         => last'.printed =
                                << ExceptMsg(last'.exc), TerminatedMsg >>
               ELSE /\ pc' = "loop"
                    /\ ~InSeq(TerminatedMsg, last'.printed)
       /\ pc = "terminated"
            => /\ pc' = "terminated"
               /\ last'.op = "none"
               /\ UNCHANGED << chat_state, handler_state >>]_vars

C18_Witness ==
    /\ pc = "terminated"
    /\ last.op = "turn"
    /\ last.exc = KeyboardInterrupt
    /\ last.reply = << "r" >>
    /\ last.printed = << ExitingMsg, TerminatedMsg >>
    /\ Len(appended) = 2

\* the recognised text contains the wake word
HeardWakeWord(heard) ==
    heard \notin { Fail, MicError } /\ Contains(Lower(wake_word), Lower(heard))

\* the i-th microphone call of the observed listen is a wake-word check
\* that heard the wake word
PositiveAt(obs, i) ==
    /\ i \in 1..Len(obs.calls)
    /\ obs.calls[i].svc = "wake"
    /\ HeardWakeWord(obs.calls[i].out)

\* C19: in voice mode every capture made by listen() comes right after a
\* wake-word check that heard the wake word (so a negative check starts no
\* capture, and a capture without text is followed by a new check), and
\* the utterance listen() returns is the text of its last capture.
C19_WakeWordGating ==
    (last.op = "listen" /\ use_voice_input)
    => /\ \A i \in 1..Len(last.calls) :
              last.calls[i].svc = "capture" => PositiveAt(last, i - 1)
       /\ pc = "capture" <=> PositiveAt(last, Len(last.calls))
       /\ last.ret # None
            => /\ pc = "created"
               /\ Truthy(last.ret)
               /\ last.calls[Len(last.calls)] = Call("capture", TRUE, last.ret)
               /\ last.lang \in Langs
       /\ (pc = "created" /\ ~last.raised) => last.ret # None

C19_Witness ==
    /\ last.op = "listen"
    /\ use_voice_input
    /\ pc = "created"
    /\ Len(last.calls) = 4
    /\ last.calls[1] = Call("wake", TRUE, << "j" >>)
    /\ last.calls[2] = Call("capture", FALSE, None)
    /\ last.calls[3] = Call("wake", TRUE, << "x", "J" >>)
    /\ last.ret = << "b", "A" >>

\* C20: when Riva is the active engine and its synthesis or playback fails
\* during speak(text), the same text is then spoken through pyttsx3, and
\* speak does not raise.
C20_RivaFallback ==
    (/\ last.op = "speak"
     /\ tts.engine_type = "riva"
     /\ (FailedCall(last, "riva_synthesize") \/ FailedCall(last, "riva_play")))
    => /\ ~last.raised
       /\ last.calls[Len(last.calls)].svc = "pyttsx3"
       /\ last.calls[Len(last.calls)].out = last.arg

\* C21: after the example's setup (the "joke" handler registered, then the
\* joke trigger phrases added to the command table), a turn whose
\* utterance contains a joke trigger phrase is dispatched to that handler,
\* returns its output, and leaves conversation_history and
\* chat_history_ids unchanged.
C21_ExampleJokeDispatch ==
    [][(/\ last'.op = "process_input"
        /\ \E j \in 1..Len(JokePatterns) :
               Contains(Lower(JokePatterns[j]), Lower(last'.arg)))
         => /\ last'.invoked = << [type |-> "joke",
                                   handler |-> "handle_joke_command",
                                   arg |-> last'.arg] >>
            /\ last'.ret = HandlerOutput("handle_joke_command", last'.arg)
            /\ conversation_history' = conversation_history
            /\ chat_history_ids' = chat_history_ids]_vars

\* C22: when the model fails in a non-command turn, chat_history_ids keeps
\* its value of before the turn while conversation_history has the turn's
\* pivot text appended and trimmed as in any turn: the failed turn takes a
\* slot of the window, evicting the oldest text when the window was full.
C22_StateAfterFailedTurn ==
    [][(/\ last'.op = "process_input"
        /\ last'.pivot # None
        /\ FailedCall(last', "generate"))
         => /\ chat_history_ids' = chat_history_ids
            /\ appended' = Append(appended, last'.pivot)
            /\ IsSuffix(conversation_history',
                        Append(conversation_history, last'.pivot))
            /\ (max_history >= 1 /\ Len(conversation_history) = max_history)
                 => conversation_history' =
                        Append(Tail(conversation_history), last'.pivot)
            /\ (max_history >= 1 /\ Len(conversation_history) < max_history)
                 => conversation_history' =
                        Append(conversation_history, last'.pivot)]_vars

C22_Witness ==
    /\ NonCommandTurn(last)
    /\ FailedCall(last, "generate")
    /\ max_history = 1
    /\ Len(appended) = 2
    /\ appended[1] # appended[2]
    /\ conversation_history = << appended[2] >>
    /\ chat_history_ids = Ids(<< appended[1], << "r" >> >>)

====
